---- MODULE Spec2Model ----
(***************************************************************************)
(* Model of src/src/pkg_32828/run.py: the stale-branch deletion tool.      *)
(*                                                                         *)
(* The state is the command line, the remote repository, the values that   *)
(* main threads from one pipeline stage to the next, and one log, events,  *)
(* holding in program order every remote call issued and every line        *)
(* printed.  The entry variable names the function the caller invoked:     *)
(* main (the CLI pipeline) or one of the four core functions called        *)
(* directly, as the unit tests call them.                                  *)
(***************************************************************************)
EXTENDS Integers, Sequences, FiniteSets, TLC

(***************************************************************************)
(* Bounds of the model.  Time is counted in ticks; a second and a day are  *)
(* scaled down to a few ticks so that sub-second precision and day         *)
(* arithmetic both stay visible.                                           *)
(***************************************************************************)
MaxBranches == 2
MaxPulls == 1
TicksPerSecond == 2
TicksPerDay == 2

Names == {"main", "dev", "feat"}
DefaultBranches == {"main"}
Dates == {2, 3}
Nows == {2 * TicksPerDay + 1, 2 * TicksPerDay + 2}
Cutoffs == 1 .. 4
OpenPulls == { [base |-> "main", head |-> "feat"],
               [base |-> "dev", head |-> "feat"],
               [base |-> "main", head |-> "dev"] }
RepoUrls == { "https://github.com/owner/repo", "git@github.com:owner/repo.git",
              "invalid_url", "" }
MainRepoUrls == { "https://github.com/owner/repo", "invalid_url" }
ExcludeArgs == { <<>>, <<"feat">>, <<"dev", "dev">> }
Tokens == { "absent", "empty", "valid" }

Range(s) == { s[i] : i \in DOMAIN s }

SeqsUpTo(S, n) == UNION { [1 .. k -> S] : k \in 0 .. n }

IsPrefix(s, t) == Len(s) <= Len(t) /\ SubSeq(t, 1, Len(s)) = s

(***************************************************************************)
(* Python values of the kinds the validator distinguishes.                 *)
(***************************************************************************)
PyNone == [kind |-> "none", n |-> 0, s |-> <<>>]
PyIntVal(n) == [kind |-> "int", n |-> n, s |-> <<>>]
PyStr(s) == [kind |-> "str", n |-> 0, s |-> s]

Digits == {"0", "1", "2", "3", "4", "5", "6", "7", "8", "9"}

DigitVal(c) ==
    CASE c = "0" -> 0 [] c = "1" -> 1 [] c = "2" -> 2 [] c = "3" -> 3
      [] c = "4" -> 4 [] c = "5" -> 5 [] c = "6" -> 6 [] c = "7" -> 7
      [] c = "8" -> 8 [] c = "9" -> 9

RECURSIVE DecimalValue(_)
DecimalValue(ds) ==
    IF ds = <<>> THEN 0
    ELSE 10 * DecimalValue(SubSeq(ds, 1, Len(ds) - 1)) + DigitVal(ds[Len(ds)])

(* int(text) of line 163 on a text of sign, digit and letter characters:   *)
(* an optional sign then at least one digit, anything else is ValueError.  *)
PyIntParse(text) ==
    LET signed == text # <<>> /\ text[1] \in {"-", "+"}
        body == IF signed THEN Tail(text) ELSE text
        ok == body # <<>> /\ \A i \in DOMAIN body : body[i] \in Digits
        mag == IF ok THEN DecimalValue(body) ELSE 0
    IN [ok |-> ok,
        n |-> IF signed /\ text[1] = "-" THEN 0 - mag ELSE mag]

(* with suppress(ValueError): max_idle_days = int(max_idle_days)           *)
ConvertMaxIdleDays(v) ==
    IF v.kind = "str" /\ PyIntParse(v.s).ok THEN PyIntVal(PyIntParse(v.s).n)
    ELSE v

HasGithubCom(url) ==
    url \in { "https://github.com/owner/repo", "git@github.com:owner/repo.git" }

get_owner_repo(url) ==
    CASE url = "https://github.com/owner/repo" -> "owner/repo"
      [] url = "git@github.com:owner/repo.git" -> "owner/repo"
      [] OTHER -> url

(* datetime.strftime("%Y-%m-%d %H:%M:%S"): the sub-second part is dropped. *)
strftime(t) == t \div TicksPerSecond

(***************************************************************************)
(* check_user_inputs: the name of the error it prints, or "ok".            *)
(***************************************************************************)
check_user_inputs(is_repository, url, exclude_kind, max_days) ==
    IF exclude_kind # "none" /\ exclude_kind # "set" THEN "err_excluded_branch"
    ELSE IF max_days.kind # "none" /\ (max_days.kind # "int" \/ max_days.n <= 0)
         THEN "err_max_idle_days"
    ELSE IF ~HasGithubCom(url) /\ ~is_repository THEN "err_repo_url"
    ELSE "ok"

(***************************************************************************)
(* get_exempt_branches: the default branch, then the loop over the         *)
(* branches, then the loop over the open pull requests.                    *)
(***************************************************************************)
AddDefault(r, acc) == acc \cup {r.default_branch}

RECURSIVE AddProtected(_, _)
AddProtected(branches, acc) ==
    IF branches = <<>> THEN acc
    ELSE AddProtected(Tail(branches),
                      IF Head(branches).protected
                      THEN acc \cup {Head(branches).name} ELSE acc)

(* Variant that protects only the base of a pull request.                  *)
PullRefsBaseOnly(pull) == {pull.base}

PullRefs(pull) == {pull.base, pull.head}

RECURSIVE AddPulls(_, _)
AddPulls(pulls, acc) ==
    IF pulls = <<>> THEN acc
    ELSE AddPulls(Tail(pulls), acc \cup PullRefs(Head(pulls)))

get_exempt_branches(r, acc) ==
    AddPulls(r.pulls, AddProtected(r.branches, AddDefault(r, acc)))

(***************************************************************************)
(* get_qualified_branches: one pass over the branches.                     *)
(***************************************************************************)
(* Variants: the exemption test dropped, and the boundary made inclusive.  *)
QualifiesIgnoringExempt(branch, exempt, cutoff) ==
    cutoff > branch.date

QualifiesInclusive(branch, exempt, cutoff) ==
    branch.name \notin exempt /\ cutoff >= branch.date

Qualifies(branch, exempt, cutoff) ==
    branch.name \notin exempt /\ cutoff > branch.date

RECURSIVE FilterLoop(_, _, _, _)
FilterLoop(branches, exempt, cutoff, acc) ==
    IF branches = <<>> THEN acc
    ELSE FilterLoop(Tail(branches), exempt, cutoff,
           [branches |-> IF Qualifies(Head(branches), exempt, cutoff)
                         THEN Append(acc.branches, Head(branches).name)
                         ELSE acc.branches,
            branch_count |-> acc.branch_count + 1])

(* Variant that counts only the branches that qualify.                     *)
get_qualified_branches_CountQualified(r, exempt, cutoff) ==
    LET res == FilterLoop(r.branches, exempt, cutoff,
                          [branches |-> <<>>, branch_count |-> 0])
    IN [branches |-> res.branches, branch_count |-> Len(res.branches)]

get_qualified_branches(r, exempt, cutoff) ==
    FilterLoop(r.branches, exempt, cutoff, [branches |-> <<>>, branch_count |-> 0])

(***************************************************************************)
(* delete_branches: the tests of lines 142 and 146, the iteration order of *)
(* line 143, and the remote repository after branch.delete().              *)
(***************************************************************************)
(* Variants: an off-by-one emptiness test, a delete that ignores dry-run,  *)
(* and a loop that runs from the end of the list.                          *)
HasQualifiedMoreThanOne(q) == Len(q) > 1

HasQualified(q) == Len(q) > 0

ShouldDeleteAlways(dry) == TRUE

ShouldDelete(dry) == ~dry

NextBranchReversed(q, i) == q[Len(q) + 1 - i]

NextBranch(q, i) == q[i]

RemoveBranch(branches, name) ==
    SelectSeq(branches, LAMBDA b : b.name # name)

BranchNamed(branches, name) ==
    CHOOSE b \in Range(branches) : b.name = name

(***************************************************************************)
(* State.                                                                  *)
(***************************************************************************)
VARIABLES
    entry,               \* the function the caller invoked
    pc,                  \* position in the program
    dry_run,             \* --dry-run
    repo_url,            \* --repo-url
    exclude_branch,      \* --exclude-branch, the tuple click builds
    exclude_kind,        \* type of the exclusion value given to the validator
    max_idle_days,       \* --max-idle-days, as text and after int()
    repo,                \* the remote repository and the handle to it
    exclude_branches,    \* the set get_exempt_branches adds to in place
    exempt_branches,     \* the exemption set handed to the idle filter
    branch_max_idle_cutoff,
    qualified_branches,
    total_branch_count,
    idx,                 \* position of the loop of line 143
    validated,           \* "pending", or what check_user_inputs returned
    raised,              \* a remote call has raised
    exit_code,           \* -1 while no exit code is set
    events               \* remote calls and printed lines, in program order

vars == << entry, pc, dry_run, repo_url, exclude_branch, exclude_kind,
           max_idle_days, repo, exclude_branches, exempt_branches,
           branch_max_idle_cutoff, qualified_branches, total_branch_count,
           idx, validated, raised, exit_code, events >>

Call(op, arg) == [kind |-> "call", op |-> op, arg |-> arg, n |-> 0]
Line(op, arg, n) == [kind |-> "print", op |-> op, arg |-> arg, n |-> n]

Branches == [name : Names, protected : BOOLEAN, date : Dates]

BranchLists == { bs \in SeqsUpTo(Branches, MaxBranches) :
                   \A i, j \in DOMAIN bs : i # j => bs[i].name # bs[j].name }

PullLists == SeqsUpTo(OpenPulls, MaxPulls)

Repos == [is_repository : {TRUE}, default_branch : DefaultBranches,
          branches : BranchLists, pulls : PullLists]

HandlesOnly == [is_repository : BOOLEAN, default_branch : DefaultBranches,
                branches : {<<>>}, pulls : {<<>>}]

BranchRepos == { r \in Repos : r.pulls = <<>> }

UserExclusions == SUBSET (Names \cup {"custom-exempt"})

MaxIdleDaysArgs == { <<"h", "e", "l", "l", "o">>, <<"0">>, <<"1">>, <<"2">> }

MaxIdleDaysValues ==
    { PyNone, PyIntVal(-1), PyIntVal(0), PyIntVal(1), PyIntVal(2),
      PyStr(<<>>), PyStr(<<"h", "e", "l", "l", "o">>), PyStr(<<"5">>) }

Start(e, p, dry, url, xarg, xkind, days, r, xset, eset, cutoff, q) ==
    /\ entry = e
    /\ pc = p
    /\ dry_run = dry
    /\ repo_url = url
    /\ exclude_branch = xarg
    /\ exclude_kind = xkind
    /\ max_idle_days = days
    /\ repo = r
    /\ exclude_branches = xset
    /\ exempt_branches = eset
    /\ branch_max_idle_cutoff = cutoff
    /\ qualified_branches = q
    /\ total_branch_count = 0
    /\ idx = 0
    /\ validated = "pending"
    /\ raised = FALSE
    /\ exit_code = -1
    /\ events = <<>>

(* main invoked from the command line.                                     *)
Init ==
    \E dry \in BOOLEAN, url \in MainRepoUrls, xarg \in ExcludeArgs,
       text \in MaxIdleDaysArgs, r \in Repos :
        Start("main", "main", dry, url, xarg, "set", PyStr(text), r,
              {}, {}, 0, <<>>)

(* check_user_inputs called directly.                                      *)
InitCheck ==
    \E url \in RepoUrls, xkind \in {"none", "set", "str"},
       days \in MaxIdleDaysValues, r \in HandlesOnly :
        Start("check_user_inputs", "check", TRUE, url, <<>>, xkind, days, r,
              {}, {}, 0, <<>>)

(* get_exempt_branches called directly.                                    *)
InitExempt ==
    \E r \in Repos, xset \in UserExclusions :
        Start("get_exempt_branches", "exempt", TRUE, "", <<>>, "set",
              PyIntVal(1), r, xset, {}, 0, <<>>)

(* get_qualified_branches called directly.                                 *)
InitFilter ==
    \E r \in BranchRepos, eset \in SUBSET Names, cutoff \in Cutoffs :
        Start("get_qualified_branches", "filter", TRUE, "", <<>>, "set",
              PyIntVal(1), r, {}, eset, cutoff, <<>>)

(* delete_branches called directly.                                        *)
InitDelete ==
    \E r \in BranchRepos, dry \in BOOLEAN, cutoff \in Dates,
       q \in SeqsUpTo(Names, MaxBranches) :
        Start("delete_branches", "delete", dry, "", <<>>, "set",
              PyIntVal(1), r, {}, {}, cutoff, q)

(***************************************************************************)
(* How a stage ends.  In main an exception reaches the handler of lines    *)
(* 192-194 and the process exits with code 1; a function called directly   *)
(* lets it propagate.  No stage is entered again.                          *)
(***************************************************************************)
(* Variant that enters the failed stage again.                             *)
PcAfterRaiseRetry == pc

PcAfterRaise == "done"

Abort(ev) ==
    /\ raised' = TRUE
    /\ pc' = PcAfterRaise
    /\ events' = IF entry = "main"
                 THEN ev \o <<[kind |-> "raise", op |-> "", arg |-> "", n |-> 0],
                              Line("exception_error", "", 0)>>
                 ELSE Append(ev, [kind |-> "raise", op |-> "", arg |-> "", n |-> 0])
    /\ exit_code' = IF entry = "main" THEN 1 ELSE exit_code

Return(ev) ==
    /\ pc' = "done"
    /\ events' = ev
    /\ exit_code' = IF entry = "main" THEN 0 ELSE exit_code
    /\ raised' = raised

Continue(ev, stage) ==
    /\ pc' = IF entry = "main" THEN stage ELSE "done"
    /\ events' = ev
    /\ exit_code' = exit_code
    /\ raised' = raised

(***************************************************************************)
(* main, lines 161-173: the exclusion set, int() of --max-idle-days, the   *)
(* banner, get_auth and gh.get_repo.  The token is read from the           *)
(* environment; get_auth exits the process by itself when it is missing    *)
(* or empty.  get_repo answers only for the repository that exists, and    *)
(* like every remote call it may raise.                                    *)
(***************************************************************************)
MainStart ==
    /\ pc = "main"
    /\ exclude_branches' = Range(exclude_branch)
    /\ max_idle_days' = ConvertMaxIdleDays(max_idle_days)
    /\ LET banner == Append(events, Line("starting", "", 0))
           called == Append(banner, Call("get_repo", get_owner_repo(repo_url)))
       IN \E token \in Tokens, net \in BOOLEAN :
            \/ /\ token = "absent"
               /\ events' = Append(banner, Line("err_token_not_found", "", 0))
               /\ pc' = "done"
               /\ exit_code' = 1
               /\ raised' = raised
            \/ /\ token = "empty"
               /\ events' = Append(banner, Line("err_token_invalid", "", 0))
               /\ pc' = "done"
               /\ exit_code' = 1
               /\ raised' = raised
            \/ /\ token = "valid"
               /\ net /\ get_owner_repo(repo_url) = "owner/repo"
               /\ Continue(called, "check")
            \/ /\ token = "valid"
               /\ ~(net /\ get_owner_repo(repo_url) = "owner/repo")
               /\ Abort(called)
    /\ UNCHANGED << entry, dry_run, repo_url, exclude_branch, exclude_kind, repo,
                    exempt_branches, branch_max_idle_cutoff, qualified_branches,
                    total_branch_count, idx, validated >>

(***************************************************************************)
(* check_user_inputs, and main's test of its result (lines 175, 189-190).  *)
(***************************************************************************)
CheckUserInputs ==
    /\ pc = "check"
    /\ LET res == check_user_inputs(repo.is_repository, repo_url, exclude_kind,
                                    max_idle_days)
       IN IF res = "ok"
          THEN /\ validated' = "passed"
               /\ Continue(events, "exempt")
          ELSE /\ validated' = "failed"
               /\ pc' = "done"
               /\ events' = Append(events, Line(res, "", 0))
               /\ exit_code' = IF entry = "main" THEN 1 ELSE exit_code
               /\ raised' = raised
    /\ UNCHANGED << entry, dry_run, repo_url, exclude_branch, exclude_kind,
                    max_idle_days, repo, exclude_branches, exempt_branches,
                    branch_max_idle_cutoff, qualified_branches,
                    total_branch_count, idx >>

(***************************************************************************)
(* get_exempt_branches.  The set is added to in place, so what was added   *)
(* before a failing call stays in it.                                      *)
(***************************************************************************)
GetExemptBranches ==
    /\ pc = "exempt"
    /\ LET listed == Append(events, Call("get_branches", ""))
           pulled == Append(listed, Call("get_pulls", "open"))
       IN \E outcome \in {"ok", "branches_raise", "pulls_raise"} :
            CASE outcome = "ok" ->
                   /\ exclude_branches' = get_exempt_branches(repo, exclude_branches)
                   /\ exempt_branches' = exclude_branches'
                   /\ Continue(pulled, "filter")
              [] outcome = "branches_raise" ->
                   /\ exclude_branches' = AddDefault(repo, exclude_branches)
                   /\ exempt_branches' = exempt_branches
                   /\ Abort(listed)
              [] outcome = "pulls_raise" ->
                   /\ exclude_branches' =
                          AddProtected(repo.branches, AddDefault(repo, exclude_branches))
                   /\ exempt_branches' = exempt_branches
                   /\ Abort(pulled)
    /\ UNCHANGED << entry, dry_run, repo_url, exclude_branch, exclude_kind,
                    max_idle_days, repo, branch_max_idle_cutoff,
                    qualified_branches, total_branch_count, idx, validated >>

(***************************************************************************)
(* main, lines 180-185, and get_qualified_branches.  main reads the clock  *)
(* and subtracts the idle days; a direct caller passes the cutoff.         *)
(***************************************************************************)
Cutoff(now) ==
    IF entry = "main" THEN now - max_idle_days.n * TicksPerDay
    ELSE branch_max_idle_cutoff

GetQualifiedBranches ==
    /\ pc = "filter"
    /\ \E now \in Nows, net \in BOOLEAN :
         LET cutoff == Cutoff(now)
             timed == IF entry = "main"
                      THEN Append(events, Line("current_time", "", strftime(now)))
                      ELSE events
             listed == Append(timed, Call("get_branches", ""))
             res == get_qualified_branches(repo, exempt_branches, cutoff)
         IN /\ branch_max_idle_cutoff' = cutoff
            /\ IF net
               THEN /\ qualified_branches' = res.branches
                    /\ total_branch_count' = res.branch_count
                    /\ Continue(listed \o
                                  << Line("total_branches", "", res.branch_count),
                                     Line("total_to_delete", "", Len(res.branches)) >>,
                                "delete")
               ELSE /\ qualified_branches' = qualified_branches
                    /\ total_branch_count' = total_branch_count
                    /\ Abort(listed)
    /\ UNCHANGED << entry, dry_run, repo_url, exclude_branch, exclude_kind,
                    max_idle_days, repo, exclude_branches, exempt_branches, idx,
                    validated >>

(***************************************************************************)
(* delete_branches, lines 140-142 and 148-151: the header, then either the *)
(* loop or the message of the empty list.                                  *)
(***************************************************************************)
DeleteBranchesBegin ==
    /\ pc = "delete"
    /\ LET header == events \o
                       << Line("deleting_older_than", "",
                               strftime(branch_max_idle_cutoff)),
                          Line("separator", "", 0) >>
       IN IF HasQualified(qualified_branches)
          THEN /\ pc' = "loop"
               /\ idx' = 1
               /\ events' = header
               /\ exit_code' = exit_code
               /\ raised' = raised
          ELSE /\ idx' = idx
               /\ Return(Append(header, Line("no_qualified_branch", "", 0)))
    /\ UNCHANGED << entry, dry_run, repo_url, exclude_branch, exclude_kind,
                    max_idle_days, repo, exclude_branches, exempt_branches,
                    branch_max_idle_cutoff, qualified_branches,
                    total_branch_count, validated >>

(***************************************************************************)
(* delete_branches, lines 143-147: one iteration.  get_branch raises for a *)
(* branch the repository does not have.                                    *)
(***************************************************************************)
Advance(ev) ==
    /\ idx' = idx + 1
    /\ IF idx = Len(qualified_branches)
       THEN Return(ev)
       ELSE /\ pc' = "loop"
            /\ events' = ev
            /\ exit_code' = exit_code
            /\ raised' = raised

DeleteBranchesIter ==
    /\ pc = "loop"
    /\ LET name == NextBranch(qualified_branches, idx)
           fetched == Append(events, Call("get_branch", name))
           deleted == Append(fetched, Call("delete_branch", name))
           found == \E b \in Range(repo.branches) : b.name = name
           confirm == Line("deleted_branch", name,
                           strftime(BranchNamed(repo.branches, name).date))
       IN \E net1, net2 \in BOOLEAN :
            IF ~(net1 /\ found)
            THEN /\ Abort(fetched)
                 /\ UNCHANGED << repo, idx >>
            ELSE IF ~ShouldDelete(dry_run)
            THEN /\ Advance(Append(fetched, confirm))
                 /\ UNCHANGED repo
            ELSE IF ~net2
            THEN /\ Abort(deleted)
                 /\ UNCHANGED << repo, idx >>
            ELSE /\ repo' = [repo EXCEPT !.branches = RemoveBranch(@, name)]
                 /\ Advance(Append(deleted, confirm))
    /\ UNCHANGED << entry, dry_run, repo_url, exclude_branch, exclude_kind,
                    max_idle_days, exclude_branches, exempt_branches,
                    branch_max_idle_cutoff, qualified_branches,
                    total_branch_count, validated >>

Next ==
    \/ MainStart
    \/ CheckUserInputs
    \/ GetExemptBranches
    \/ GetQualifiedBranches
    \/ DeleteBranchesBegin
    \/ DeleteBranchesIter

Spec == Init /\ [][Next]_vars

NextCheck == CheckUserInputs
SpecCheck == InitCheck /\ [][NextCheck]_vars

NextExempt == GetExemptBranches
SpecExempt == InitExempt /\ [][NextExempt]_vars

NextFilter == GetQualifiedBranches
SpecFilter == InitFilter /\ [][NextFilter]_vars

NextDelete == DeleteBranchesBegin \/ DeleteBranchesIter
SpecDelete == InitDelete /\ [][NextDelete]_vars

(***************************************************************************)
(* Views of the log.                                                       *)
(***************************************************************************)
Calls(ev) == SelectSeq(ev, LAMBDA e : e.kind = "call")

CallsOf(ev, op) == SelectSeq(ev, LAMBDA e : e.kind = "call" /\ e.op = op)

LinesOf(ev, op) == SelectSeq(ev, LAMBDA e : e.kind = "print" /\ e.op = op)

Args(s) == [i \in DOMAIN s |-> s[i].arg]

BranchNames(branches) == [i \in DOMAIN branches |-> branches[i].name]

(* The fetches, deletions and confirmation lines of the log, in order.     *)
DeleteTrace(ev) ==
    LET sel == SelectSeq(ev, LAMBDA e :
                   e.op \in {"get_branch", "delete_branch", "deleted_branch"})
    IN [i \in DOMAIN sel |-> <<sel[i].op, sel[i].arg>>]

(* What a sequential pass over q in list order issues and prints.          *)
RECURSIVE InOrder(_, _)
InOrder(q, dry) ==
    IF q = <<>> THEN <<>>
    ELSE (IF dry
          THEN << <<"get_branch", Head(q)>>, <<"deleted_branch", Head(q)>> >>
          ELSE << <<"get_branch", Head(q)>>, <<"delete_branch", Head(q)>>,
                  <<"deleted_branch", Head(q)>> >>)
         \o InOrder(Tail(q), dry)

RECURSIVE IsSubsequence(_, _)
IsSubsequence(s, t) ==
    IF s = <<>> THEN TRUE
    ELSE IF t = <<>> THEN FALSE
    ELSE IF Head(s) = Head(t) THEN IsSubsequence(Tail(s), Tail(t))
    ELSE IsSubsequence(s, Tail(t))

Returned == pc = "done" /\ ~raised

(***************************************************************************)
(* C1: in every run of main the validator runs before any network access:  *)
(* no remote call is in the log while check_user_inputs has not returned,  *)
(* and a run whose validation failed has exit code 1 and made no remote    *)
(* call.                                                                   *)
(***************************************************************************)
C1_ValidatorBeforeNetwork ==
    /\ validated = "pending" => Calls(events) = <<>>
    /\ validated = "failed" => Calls(events) = <<>> /\ exit_code = 1

(***************************************************************************)
(* C2: across a run of main, with any dry-run value, every delete call is  *)
(* for a branch outside the exemption set: at the step that issues it the  *)
(* branch is not the default branch, not protected, not the base or head   *)
(* of an open pull request and not excluded by the user.                   *)
(***************************************************************************)
C2_ExemptNeverDeleted ==
    [][ \A i \in (Len(events) + 1) .. Len(events') :
          (events'[i].kind = "call" /\ events'[i].op = "delete_branch") =>
             LET name == events'[i].arg
             IN /\ name \notin exempt_branches
                /\ name # repo.default_branch
                /\ name \notin Range(exclude_branch)
                /\ \A b \in Range(repo.branches) : b.name = name => ~b.protected
                /\ \A p \in Range(repo.pulls) : name # p.base /\ name # p.head
      ]_vars

C2_Witness ==
    /\ entry = "main" /\ pc = "done" /\ exit_code = 0 /\ ~dry_run
    /\ CallsOf(events, "delete_branch") # <<>>
    /\ \E b \in Range(repo.branches) :
          /\ b.date < branch_max_idle_cutoff
          /\ b.name # repo.default_branch
          /\ b.protected \/ b.name \in Range(exclude_branch)
               \/ \E p \in Range(repo.pulls) : b.name = p.head

(***************************************************************************)
(* C3: delete_branches with dry-run true issues no delete call, whatever   *)
(* the list, and still prints one confirmation line per listed branch, in  *)
(* list order and with the branch's last-commit time; a call that returns  *)
(* prints the same lines in either mode.                                   *)
(***************************************************************************)
C3_DryRunDeletesNothing ==
    /\ dry_run =>
         /\ CallsOf(events, "delete_branch") = <<>>
         /\ IsPrefix(Args(LinesOf(events, "deleted_branch")), qualified_branches)
         /\ \A l \in Range(LinesOf(events, "deleted_branch")) :
               l.n = strftime(BranchNamed(repo.branches, l.arg).date)
    /\ Returned =>
         Args(LinesOf(events, "deleted_branch")) = qualified_branches

C3_Witness ==
    /\ entry = "delete_branches" /\ dry_run /\ Returned
    /\ Len(qualified_branches) = 2
    /\ qualified_branches[1] # qualified_branches[2]
    /\ Len(LinesOf(events, "deleted_branch")) = 2

(***************************************************************************)
(* C4: a branch the repository enumerates is in the list returned by       *)
(* get_qualified_branches if and only if its name is not in the exemption  *)
(* set and its last-commit time is strictly earlier than the cutoff.       *)
(***************************************************************************)
C4_QualifiedIff ==
    Returned =>
      /\ \A b \in Range(repo.branches) :
            b.name \in Range(qualified_branches)
              <=> (b.name \notin exempt_branches
                   /\ b.date < branch_max_idle_cutoff)
      /\ Range(qualified_branches) \subseteq Range(BranchNames(repo.branches))

C4_Witness ==
    /\ entry = "get_qualified_branches" /\ Returned
    /\ exempt_branches # {}
    /\ \E b1, b2 \in Range(repo.branches) :
          /\ b1.date = branch_max_idle_cutoff /\ b1.name \notin exempt_branches
          /\ b1.name \notin Range(qualified_branches)
          /\ b2.date < branch_max_idle_cutoff /\ b2.name \notin exempt_branches
          /\ b2.name \in Range(qualified_branches)

C6_MaxIdleDaysPositiveInteger ==
    validated = "passed" => max_idle_days.kind = "int" /\ max_idle_days.n > 0

(***************************************************************************)
(* C7: once a remote call has raised, no further remote call is issued,    *)
(* nothing raises a second time, and the run is over with exit code 1.     *)
(***************************************************************************)
C7_FailureAbortsRun ==
    /\ \A i, j \in DOMAIN events :
          (events[i].kind = "raise" /\ i < j) => events[j].kind = "print"
    /\ raised <=> \E i \in DOMAIN events : events[i].kind = "raise"
    /\ raised => pc = "done" /\ exit_code = 1

C7_Witness ==
    /\ entry = "main" /\ raised /\ Len(qualified_branches) = 2 /\ idx = 1
    /\ Len(CallsOf(events, "delete_branch")) = 1
    /\ Len(CallsOf(events, "get_branch")) = 1
    /\ LinesOf(events, "deleted_branch") = <<>>

(***************************************************************************)
(* C8: delete_branches with an empty list fetches and deletes nothing and  *)
(* prints, after its header, the no-qualified-branch message and no        *)
(* confirmation line; with a non-empty list it never prints that message.  *)
(***************************************************************************)
C8_EmptyList ==
    /\ (qualified_branches = <<>> /\ pc = "done") =>
          /\ Calls(events) = <<>>
          /\ events = << Line("deleting_older_than", "",
                              strftime(branch_max_idle_cutoff)),
                         Line("separator", "", 0),
                         Line("no_qualified_branch", "", 0) >>
    /\ qualified_branches # <<>> => LinesOf(events, "no_qualified_branch") = <<>>

C8_Witness ==
    /\ entry = "delete_branches" /\ pc = "done" /\ ~dry_run
    /\ qualified_branches = <<>>
    /\ Len(repo.branches) = 2
    /\ Len(LinesOf(events, "no_qualified_branch")) = 1

(***************************************************************************)
(* C9: the qualified list is in the enumeration order of the repository,   *)
(* delete_branches works through it in list order, the fetch, deletion and *)
(* confirmation of one branch all before those of the next, and a run with *)
(* dry-run false that ends without a failure has deleted every listed      *)
(* branch exactly once.                                                    *)
(***************************************************************************)
C9_SequentialInOrder ==
    /\ IsPrefix(DeleteTrace(events), InOrder(qualified_branches, dry_run))
    /\ pc = "delete" =>
          IsSubsequence(qualified_branches, BranchNames(repo.branches))
    /\ (pc = "done" /\ exit_code = 0) =>
          DeleteTrace(events) = InOrder(qualified_branches, dry_run)

C9_Witness ==
    /\ entry = "main" /\ pc = "done" /\ exit_code = 0 /\ ~dry_run
    /\ Len(qualified_branches) = 2
    /\ Args(CallsOf(events, "delete_branch")) = qualified_branches

(***************************************************************************)
(* C10: the branch count get_qualified_branches returns is the number of   *)
(* branches enumerated, whatever qualifies, and the qualified list is no   *)
(* longer than it.                                                         *)
(***************************************************************************)
C10_TotalCount ==
    Returned =>
      /\ total_branch_count = Len(repo.branches)
      /\ Len(qualified_branches) <= total_branch_count

C10_Witness ==
    /\ entry = "get_qualified_branches" /\ Returned
    /\ total_branch_count = 2
    /\ Len(qualified_branches) = 1

====
